---- MODULE Spec2Model ----
(***************************************************************************)
(* A model of ping_log_analyze.py: the title search (create_title), the    *)
(* record parser (LogItem, parse_log), the single analysis pass over the   *)
(* parsed records and the writing of the report.                           *)
(*                                                                         *)
(* A line of the input file is abstracted to what the two regular          *)
(* expressions and the conversions of LogItem.__init__ read from it:       *)
(*   kind  "title"  the line matches TITLE_REGEXP,                         *)
(*         "record" the stripped line matches LOG_COMPILED_REGEXP,         *)
(*         "junk"   it matches neither                                     *)
(*         (no line matches both: a title starts with "PING ", a record    *)
(*         with an optional [timestamp] and then digits);                  *)
(*   seq   the digits after icmp_seq=;                                     *)
(*   time  the number after time= (whole milliseconds here);               *)
(*   ts    the class of the optional [timestamp] group:                    *)
(*         "none"          no timestamp group,                             *)
(*         "valid"         datetime.fromtimestamp returns a datetime,      *)
(*         "year_gt_9999"  datetime.fromtimestamp raises ValueError        *)
(*                         ("year 10000 is out of range"),                 *)
(*         "beyond_time_t" datetime.fromtimestamp raises OverflowError     *)
(*                         (or OSError): not a ValueError.                 *)
(* The file iterator hands out lines one at a time; infile is the          *)
(* sequence of lines it has handed out so far, eof whether it has raised   *)
(* StopIteration.                                                          *)
(***************************************************************************)
EXTENDS Integers, Sequences, FiniteSets, TLC

\* Bounds of the model.
MaxLen == 3          \* lines in the input file
MinSeq == 5          \* smallest icmp_seq in a line
MaxSeq == 8          \* largest icmp_seq in a line
MaxTime == 2         \* largest time= value in a line
MaxThreshold == 2    \* largest --threshold argument

\* Program constant (line 15).
DEFAULT_TIME_THRESHOLD == 1

SeqNumbers == MinSeq..MaxSeq
Times == 0..MaxTime
Thresholds == DEFAULT_TIME_THRESHOLD..MaxThreshold

TitleLine == [kind |-> "title", seq |-> 0, time |-> 0, ts |-> "none"]
JunkLine == [kind |-> "junk", seq |-> 0, time |-> 0, ts |-> "none"]
RecordLine(s, t, c) == [kind |-> "record", seq |-> s, time |-> t, ts |-> c]

\* The lines a file may hold: the title, a junk line, every timestamped record
\* line, and one record line for each other timestamp class.
Lines ==
    {TitleLine, JunkLine}
    \cup {RecordLine(s, t, "valid") : s \in SeqNumbers, t \in Times}
    \cup {RecordLine(MinSeq + 1, DEFAULT_TIME_THRESHOLD, c) :
            c \in {"none", "year_gt_9999", "beyond_time_t"}}

VARIABLES
    skip_title,               \* args.skip_title
    time_threshold,           \* args.threshold
    infile,                   \* lines handed out by file_iterator so far
    eof,                      \* file_iterator has raised StopIteration
    pc,                       \* position of the script
    title,                    \* title ("" or "Statistics of ...")
    parsed_log,               \* result of parse_log
    idx,                      \* records of parsed_log the for loop has processed
    records_above_threshold,
    high_ping_counter,
    chunks_with_skips,
    skip_counts,
    previous_number,
    previous_item,
    outfile,                  \* the reports written to <stem>_analyzed.txt
    stdout,                   \* messages printed
    exit_status               \* "running", "0", the sys.exit message, or the uncaught exception

vars == <<skip_title, time_threshold, infile, eof, pc, title, parsed_log, idx,
          records_above_threshold, high_ping_counter, chunks_with_skips,
          skip_counts, previous_number, previous_item, outfile, stdout,
          exit_status>>

analysis == <<idx, records_above_threshold, high_ping_counter, chunks_with_skips,
              skip_counts, previous_number, previous_item>>

NoTitleMessage == "No PING title found, probably corrupted log file"
NoRecordsMessage == "No PING log records found in provided file"
SavedMessage == "Analyze results saved"
NoItem == [log_string |-> JunkLine, seq_number |-> 0, time |-> 0, timestamp |-> "none"]

----------------------------------------------------------------------------
\* re.match(TITLE_REGEXP, line)
MatchesTitle_Any(line) == line.kind # "record"
MatchesTitle(line) == line.kind = "title"

\* LOG_COMPILED_REGEXP.match(log_string.strip())
MatchesLog(line) == line.kind = "record"

\* datetime.fromtimestamp(float(timestamp)): the exception it raises, or "ok"
FromTimestamp(ts) ==
    CASE ts = "year_gt_9999" -> "ValueError"
      [] ts = "beyond_time_t" -> "OverflowError"
      [] OTHER -> "ok"

\* LogItem(log_string): the exception __init__ raises, or "ok"
LogItemRaises(line) ==
    IF ~MatchesLog(line) THEN "ValueError"
    ELSE IF line.ts # "none" THEN FromTimestamp(line.ts)
    ELSE "ok"

\* The object LogItem(log_string) builds when __init__ returns
LogItem(line) ==
    [log_string |-> line, seq_number |-> line.seq, time |-> line.time,
     timestamp |-> line.ts]

----------------------------------------------------------------------------
Init ==
    /\ skip_title \in BOOLEAN
    /\ time_threshold \in Thresholds
    /\ infile = <<>>
    /\ eof = FALSE
    /\ pc = IF skip_title THEN "parse_log" ELSE "create_title"
    /\ title = ""
    /\ parsed_log = <<>>
    /\ idx = 0
    /\ records_above_threshold = <<>>
    /\ high_ping_counter = 0
    /\ chunks_with_skips = <<>>
    /\ skip_counts = <<>>
    /\ previous_number = 0
    /\ previous_item = NoItem
    /\ outfile = <<>>
    /\ stdout = <<>>
    /\ exit_status = "running"

\* create_title: next(file) returns a line; the loop ends when it matches
CreateTitleNext ==
    /\ pc = "create_title"
    /\ Len(infile) < MaxLen
    /\ \E line \in Lines :
         /\ infile' = Append(infile, line)
         /\ IF MatchesTitle(line)
               THEN /\ title' = "Statistics of PING"
                    /\ pc' = "parse_log"
               ELSE UNCHANGED <<title, pc>>
    /\ UNCHANGED <<skip_title, time_threshold, eof, parsed_log, analysis,
                   outfile, stdout, exit_status>>

\* create_title: next(file) raises StopIteration, create_title raises
\* ValueError, the script calls sys.exit with the diagnostic
CreateTitleStop_FallThrough ==
    /\ pc = "create_title"
    /\ eof' = TRUE
    /\ pc' = "parse_log"
    /\ UNCHANGED <<skip_title, time_threshold, infile, title, parsed_log,
                   analysis, outfile, stdout, exit_status>>

CreateTitleStop ==
    /\ pc = "create_title"
    /\ eof' = TRUE
    /\ pc' = "exited"
    /\ exit_status' = NoTitleMessage
    /\ UNCHANGED <<skip_title, time_threshold, infile, title, parsed_log,
                   analysis, outfile, stdout>>

\* parse_log: next(file) returns a line; LogItem(line) is appended, or its
\* ValueError is suppressed, or its other exception leaves the script
ParseLogNext ==
    /\ pc = "parse_log"
    /\ ~eof
    /\ Len(infile) < MaxLen
    /\ \E line \in Lines :
         /\ infile' = Append(infile, line)
         /\ CASE LogItemRaises(line) = "ok" ->
                   /\ parsed_log' = Append(parsed_log, LogItem(line))
                   /\ UNCHANGED <<pc, exit_status>>
              [] LogItemRaises(line) = "ValueError" ->
                   UNCHANGED <<parsed_log, pc, exit_status>>
              [] OTHER ->
                   /\ pc' = "exited"
                   /\ exit_status' = LogItemRaises(line)
                   /\ UNCHANGED parsed_log
    /\ UNCHANGED <<skip_title, time_threshold, eof, title, analysis, outfile,
                   stdout>>

\* line 94: previous_number = parsed_log[0].seq_number - 1
InitialPreviousNumber_First(log) == log[1].seq_number
InitialPreviousNumber(log) == log[1].seq_number - 1

\* parse_log: next(file) raises StopIteration and parse_log returns a
\* non-empty list; lines 90-95 set up the pass
ParseLogReturn ==
    /\ pc = "parse_log"
    /\ Len(parsed_log) > 0
    /\ eof' = TRUE
    /\ pc' = "analyze"
    /\ idx' = 0
    /\ records_above_threshold' = <<>>
    /\ chunks_with_skips' = <<>>
    /\ high_ping_counter' = 0
    /\ skip_counts' = <<>>
    /\ previous_number' = InitialPreviousNumber(parsed_log)
    /\ previous_item' = parsed_log[1]
    /\ UNCHANGED <<skip_title, time_threshold, infile, title, parsed_log,
                   outfile, stdout, exit_status>>

\* parse_log: next(file) raises StopIteration and parse_log returns the empty
\* list; the else branch (lines 144-145) prints the notice
NoRecords_WritesReport ==
    /\ pc = "parse_log"
    /\ Len(parsed_log) = 0
    /\ eof' = TRUE
    /\ pc' = "exited"
    /\ outfile' = Append(outfile, [title |-> title, total |-> 0])
    /\ stdout' = Append(stdout, SavedMessage)
    /\ exit_status' = "0"
    /\ UNCHANGED <<skip_title, time_threshold, infile, title, parsed_log,
                   analysis>>

NoRecords ==
    /\ pc = "parse_log"
    /\ Len(parsed_log) = 0
    /\ eof' = TRUE
    /\ pc' = "exited"
    /\ stdout' = Append(stdout, NoRecordsMessage)
    /\ exit_status' = "0"
    /\ UNCHANGED <<skip_title, time_threshold, infile, title, parsed_log,
                   analysis, outfile>>

\* line 97: log_item.time > time_threshold
IsAbove_OrEqual(log_item, threshold) == log_item.time >= threshold
IsAbove(log_item, threshold) == log_item.time > threshold

\* line 100: log_item.seq_number != previous_number + 1
IsSkip_ForwardOnly(log_item, previous) == log_item.seq_number > previous + 1
IsSkip(log_item, previous) == log_item.seq_number # previous + 1

\* line 101: skipped_count = log_item.seq_number - previous_number - 1
SkippedCount_OffByOne(log_item, previous) == log_item.seq_number - previous
SkippedCount(log_item, previous) == log_item.seq_number - previous - 1

\* One iteration of the for loop (lines 96-105)
AnalyzeStep ==
    /\ pc = "analyze"
    /\ idx < Len(parsed_log)
    /\ LET log_item == parsed_log[idx + 1]
           skipped_count == SkippedCount(log_item, previous_number)
       IN /\ IF IsAbove(log_item, time_threshold)
                THEN /\ records_above_threshold' =
                            Append(records_above_threshold, log_item)
                     /\ high_ping_counter' = high_ping_counter + 1
                ELSE UNCHANGED <<records_above_threshold, high_ping_counter>>
          /\ IF IsSkip(log_item, previous_number)
                THEN /\ chunks_with_skips' =
                            Append(chunks_with_skips,
                                   [start |-> previous_item, end |-> log_item,
                                    skipped |-> skipped_count])
                     /\ skip_counts' = Append(skip_counts, skipped_count)
                ELSE UNCHANGED <<chunks_with_skips, skip_counts>>
          /\ previous_item' = log_item
          /\ previous_number' = log_item.seq_number
    /\ idx' = idx + 1
    /\ UNCHANGED <<skip_title, time_threshold, infile, eof, pc, title,
                   parsed_log, outfile, stdout, exit_status>>

RECURSIVE SeqMax(_)
\* max(...) of a non-empty list
SeqMax(s) ==
    IF Len(s) = 1 THEN s[1]
    ELSE LET m == SeqMax(Tail(s)) IN IF s[1] >= m THEN s[1] ELSE m

\* The report (lines 107-137): its counts, maxima and detail sections. The
\* average and median lines are floating-point formatting and are left out.
Report ==
    [title |-> title,
     total |-> Len(parsed_log),
     maximum |-> SeqMax([i \in 1..Len(parsed_log) |-> parsed_log[i].time]),
     above |-> Len(records_above_threshold),
     chunks |-> Len(chunks_with_skips),
     max_skipped |-> IF Len(skip_counts) > 0 THEN <<SeqMax(skip_counts)>> ELSE <<>>,
     times_above |-> records_above_threshold,
     skipped_requests |-> chunks_with_skips]

\* The loop is over: the report is assembled and written (lines 107-142)
WriteReport ==
    /\ pc = "analyze"
    /\ idx = Len(parsed_log)
    /\ outfile' = Append(outfile, Report)
    /\ stdout' = Append(stdout, SavedMessage)
    /\ pc' = "exited"
    /\ exit_status' = "0"
    /\ UNCHANGED <<skip_title, time_threshold, infile, eof, title, parsed_log,
                   analysis>>

Next ==
    \/ CreateTitleNext
    \/ CreateTitleStop
    \/ ParseLogNext
    \/ ParseLogReturn
    \/ NoRecords
    \/ AnalyzeStep
    \/ WriteReport

Spec == Init /\ [][Next]_vars

----------------------------------------------------------------------------
\* Vocabulary of the properties.

\* The run's outcomes.
FatalNoTitle == pc = "exited" /\ exit_status = NoTitleMessage
NoRecordsNotice ==
    pc = "exited" /\ exit_status = "0" /\ stdout = <<NoRecordsMessage>>
ReportWritten ==
    pc = "exited" /\ exit_status = "0" /\ stdout = <<SavedMessage>>
    /\ Len(outfile) = 1

\* The pass has processed every record.
PassComplete == pc \in {"analyze", "exited"} /\ idx = Len(parsed_log) /\ idx > 0

\* The positions i < n whose record and the next one are not consecutive.
SkipPositions(r, n) ==
    SelectSeq([i \in 1..(n - 1) |-> i],
              LAMBDA i : r[i + 1].seq_number # r[i].seq_number + 1)

\* The gaps of the first n records of r, by the definition of a gap.
ExpectedChunks(r, n) ==
    LET p == SkipPositions(r, n)
    IN [k \in 1..Len(p) |->
          [start |-> r[p[k]], end |-> r[p[k] + 1],
           skipped |-> r[p[k] + 1].seq_number - r[p[k]].seq_number - 1]]

\* C1: at every step of the pass, and in the written report, the gap list is
\* exactly the adjacent pairs of the processed records whose sequence numbers
\* are not consecutive, in list order, each with start, end and
\* skipped = end.seq - start.seq - 1; the first record produces no gap, and
\* a list of consecutive sequence numbers has no gap.
C1_GapListIsTheNonConsecutivePairs ==
    /\ chunks_with_skips = ExpectedChunks(parsed_log, idx)
    /\ skip_counts = [k \in 1..Len(chunks_with_skips) |-> chunks_with_skips[k].skipped]
    /\ idx = 1 => chunks_with_skips = <<>>
    /\ (\A i \in 1..(idx - 1) :
            parsed_log[i + 1].seq_number = parsed_log[i].seq_number + 1)
          => Len(chunks_with_skips) = 0
    /\ ReportWritten =>
          /\ outfile[1].skipped_requests = ExpectedChunks(parsed_log, Len(parsed_log))
          /\ outfile[1].chunks = Len(ExpectedChunks(parsed_log, Len(parsed_log)))

\* A report on a list whose only jump is from 5 to 8: one gap, skipped = 2.
C1_Witness ==
    /\ ReportWritten
    /\ Len(parsed_log) = 2
    /\ parsed_log[1].seq_number = 5
    /\ parsed_log[2].seq_number = 8
    /\ Len(chunks_with_skips) = 1
    /\ chunks_with_skips[1].skipped = 2
    /\ chunks_with_skips[1].start = parsed_log[1]
    /\ chunks_with_skips[1].end = parsed_log[2]

\* The processed records whose round-trip time is strictly above the threshold.
ExpectedAbove(r, n) ==
    SelectSeq(SubSeq(r, 1, n), LAMBDA x : x.time > time_threshold)

\* The number of processed records that are not above the threshold.
NonExceedingCount(r, n) ==
    Cardinality({i \in 1..n : r[i].time <= time_threshold})

\* C2: at every step of the pass the exceeding list is the ordered
\* subsequence of the processed records with time strictly above the
\* threshold (time = threshold is not flagged), so exceeding + non-exceeding
\* = records processed, and in the report = the total record count.
C2_ExceedingIsStrictlyAbove ==
    /\ records_above_threshold = ExpectedAbove(parsed_log, idx)
    /\ high_ping_counter = Len(records_above_threshold)
    /\ Len(records_above_threshold) + NonExceedingCount(parsed_log, idx) = idx
    /\ ReportWritten =>
          /\ outfile[1].times_above = ExpectedAbove(parsed_log, Len(parsed_log))
          /\ outfile[1].above + NonExceedingCount(parsed_log, Len(parsed_log))
                = outfile[1].total
          /\ outfile[1].total = Len(parsed_log)

\* A report on three records: one below, one at and one above the threshold.
C2_Witness ==
    /\ ReportWritten
    /\ Len(parsed_log) = 3
    /\ parsed_log[1].time = time_threshold
    /\ parsed_log[2].time > time_threshold
    /\ parsed_log[3].time < time_threshold
    /\ records_above_threshold = <<parsed_log[2]>>

\* C8: whenever the record just processed has a sequence number less than or
\* equal to that of the record before it, the pass has appended a gap for
\* that pair, with skipped = end.seq - start.seq - 1, which is zero or
\* negative.
C8_OutOfOrderIsRecordedAsGap ==
    (/\ pc \in {"analyze", "exited"}
     /\ idx >= 2
     /\ parsed_log[idx].seq_number <= parsed_log[idx - 1].seq_number)
    => /\ Len(chunks_with_skips) > 0
       /\ chunks_with_skips[Len(chunks_with_skips)] =
             [start |-> parsed_log[idx - 1], end |-> parsed_log[idx],
              skipped |-> parsed_log[idx].seq_number
                            - parsed_log[idx - 1].seq_number - 1]
       /\ chunks_with_skips[Len(chunks_with_skips)].skipped <= 0
       /\ skip_counts[Len(skip_counts)] <= 0

\* The pass has just processed a duplicate and, before it, an out-of-order record.
C8_Witness ==
    /\ pc = "analyze"
    /\ idx = 3
    /\ parsed_log[2].seq_number < parsed_log[1].seq_number
    /\ parsed_log[3].seq_number = parsed_log[2].seq_number
    /\ Len(chunks_with_skips) = 2
    /\ chunks_with_skips[2].skipped = -1

RECURSIVE SeqSum(_)
SeqSum(s) == IF s = <<>> THEN 0 ELSE s[1] + SeqSum(Tail(s))

\* C10: at every step of the pass the skipped values recorded so far sum to
\* current.seq - first.seq - (records processed - 1), at the end to
\* last.seq - first.seq - (N - 1), and no recorded gap has skipped = 0.
C10_SkippedSumTelescopes ==
    /\ (pc \in {"analyze", "exited"} /\ idx >= 1) =>
          /\ SeqSum(skip_counts) =
                parsed_log[idx].seq_number - parsed_log[1].seq_number - (idx - 1)
          /\ previous_number = parsed_log[idx].seq_number
    /\ \A k \in 1..Len(chunks_with_skips) : chunks_with_skips[k].skipped # 0
    /\ \A k \in 1..Len(skip_counts) : skip_counts[k] # 0
    /\ ReportWritten =>
          SeqSum([k \in 1..Len(outfile[1].skipped_requests) |->
                    outfile[1].skipped_requests[k].skipped])
            = parsed_log[Len(parsed_log)].seq_number - parsed_log[1].seq_number
                - (Len(parsed_log) - 1)

\* A report with a forward gap and a backward one, whose skipped values cancel
\* in part: 5, 8, 6 gives 2 and -3.
C10_Witness ==
    /\ ReportWritten
    /\ Len(parsed_log) = 3
    /\ skip_counts = <<2, -3>>
    /\ parsed_log[3].seq_number - parsed_log[1].seq_number = 1

----------------------------------------------------------------------------
NoTitleIn(lines) == \A i \in 1..Len(lines) : lines[i].kind # "title"

\* C4: with title detection required, an input that ends without a
\* title-shaped line ends the run in the fatal missing-title outcome: the
\* diagnostic, no record parsed or analyzed, no output file, nothing printed,
\* whatever record lines the input holds. With title detection skipped the
\* fatal outcome never happens.
C4_MissingTitleIsFatal ==
    /\ (~skip_title /\ eof /\ NoTitleIn(infile)) =>
          /\ FatalNoTitle
          /\ parsed_log = <<>>
          /\ idx = 0
          /\ records_above_threshold = <<>>
          /\ chunks_with_skips = <<>>
          /\ outfile = <<>>
          /\ stdout = <<>>
    /\ skip_title => exit_status # NoTitleMessage

\* A fatal run on an input of valid record lines only.
C4_Witness ==
    /\ FatalNoTitle
    /\ Len(infile) = MaxLen
    /\ \A i \in 1..Len(infile) :
          infile[i].kind = "record" /\ infile[i].ts = "valid"

\* C5 as stated: an empty input file gives the "no records found" notice and
\* nothing else, under every configuration.
C5_Original_EmptyInputGivesNotice ==
    (eof /\ infile = <<>>) =>
        /\ outfile = <<>>
        /\ NoRecordsNotice

\* C5 amended: an empty input file never produces an output file; with title
\* detection skipped the "no records found" notice is the only result, with
\* title detection required the run ends in the fatal missing-title outcome
\* and no notice is printed.
C5_EmptyInputByConfiguration ==
    (eof /\ infile = <<>>) =>
        /\ outfile = <<>>
        /\ parsed_log = <<>>
        /\ skip_title => NoRecordsNotice
        /\ ~skip_title => (FatalNoTitle /\ stdout = <<>>)

\* The end of a run on an empty file with title detection skipped.
C5_Witness ==
    /\ eof
    /\ infile = <<>>
    /\ skip_title
    /\ NoRecordsNotice

\* parse_log was entered and has returned.
ParseLogReturned == eof /\ (skip_title \/ title # "")

\* C6: whenever parse_log returns an empty list, the pass and the report do
\* not run, no output file is written, and the run ends normally with the
\* "no records found" notice.
C6_EmptyRecordListGivesNotice ==
    (ParseLogReturned /\ parsed_log = <<>>) =>
        /\ NoRecordsNotice
        /\ idx = 0
        /\ records_above_threshold = <<>>
        /\ chunks_with_skips = <<>>
        /\ outfile = <<>>

\* parse_log has returned the empty list from a file of several lines, found
\* after a title.
C6_Witness ==
    /\ ParseLogReturned
    /\ parsed_log = <<>>
    /\ ~skip_title
    /\ Len(infile) = MaxLen
    /\ NoRecordsNotice

----------------------------------------------------------------------------
\* The lines handed to parse_log: all of them, or those after the first title.
RECURSIVE FirstTitle(_, _)
FirstTitle(lines, i) ==
    IF i > Len(lines) THEN 0
    ELSE IF lines[i].kind = "title" THEN i
    ELSE FirstTitle(lines, i + 1)

ParseInput ==
    IF skip_title THEN infile
    ELSE IF FirstTitle(infile, 1) = 0 THEN <<>>
    ELSE SubSeq(infile, FirstTitle(infile, 1) + 1, Len(infile))

\* The record of every line of lines that matches the record pattern, in order.
RecordsOfMatching(lines) ==
    LET m == SelectSeq(lines, LAMBDA l : l.kind = "record")
    IN [k \in 1..Len(m) |->
          [log_string |-> m[k], seq_number |-> m[k].seq, time |-> m[k].time,
           timestamp |-> m[k].ts]]

\* C3: for every sequence of lines handed to parse_log, the non-matching
\* lines are dropped without the run failing, and the record list is exactly
\* the matching lines in input order; the report counts those records only.
C3_RecordListIsTheMatchingLines ==
    /\ exit_status \in {"running", "0", NoTitleMessage}
    /\ parsed_log = RecordsOfMatching(ParseInput)
    /\ ReportWritten => outfile[1].total = Len(RecordsOfMatching(ParseInput))

\* C7: the output file is written at most once, only after the input is
\* exhausted and the pass has processed every record; a run that has ended
\* has ended in exactly one of the three outcomes, and only the report
\* outcome has written the file.
C7_OneOfThreeOutcomes ==
    /\ Len(outfile) <= 1
    /\ Len(outfile) = 1 => (eof /\ PassComplete /\ ReportWritten)
    /\ pc = "exited" =>
          \/ FatalNoTitle /\ ~NoRecordsNotice /\ ~ReportWritten /\ outfile = <<>>
          \/ NoRecordsNotice /\ ~FatalNoTitle /\ ~ReportWritten /\ outfile = <<>>
          \/ ReportWritten /\ ~FatalNoTitle /\ ~NoRecordsNotice

\* C9: with title detection enabled the record list holds exactly the valid
\* record lines after the first title line (record lines before it and later
\* title lines are not in it); with title detection skipped it holds every
\* valid record line of the input and the report has no title.
C9_RecordsAreThoseAfterTheTitle ==
    /\ ~skip_title =>
          parsed_log =
            RecordsOfMatching(
                IF FirstTitle(infile, 1) = 0 THEN <<>>
                ELSE SubSeq(infile, FirstTitle(infile, 1) + 1, Len(infile)))
    /\ skip_title =>
          /\ parsed_log = RecordsOfMatching(infile)
          /\ title = ""
          /\ \A k \in 1..Len(outfile) : outfile[k].title = ""

====
